---- MODULE Spec2Model ----
(***************************************************************************)
(* View-state coordinator of the solar-system explorer: the App component  *)
(* (src/components/ui/SystemNav.tsx, lines 123-290) with its React state,  *)
(* its event handlers, the 1200 ms activation timer and the platform       *)
(* fullscreen API it talks to.                                             *)
(*                                                                         *)
(* Every handler is one atomic action (React runs a handler to completion  *)
(* and commits its batched setState calls before the next event).  The     *)
(* handlers are invoked with any input of their parameter type: the        *)
(* components that call them (Globe, SolarSystemMap, lists, overlay) are   *)
(* collaborators, and the handlers themselves carry no guard.              *)
(***************************************************************************)
EXTENDS Integers, FiniteSets, Sequences, TLC

(* ---------------- bounds of the model ---------------- *)

\* at most this many activation timers are pending at once
MaxTimers == 2
\* at most this many requestFullscreen() promises are unresolved at once
MaxFsRequests == 1

(* ---------------- program constants ---------------- *)

\* useState<number>(30) and setZoomLevel(30) in handleDeactivate
ZoomDefault == 30
\* window.innerWidth < 1024
SmallScreenWidth == 1024

\* the allow-list of handleMapSelection
detailedBodies ==
    {"earth", "moon", "mars", "belt", "io", "europa", "ganymede", "callisto"}

(* ---------------- the catalog (data/constants.ts) ---------------- *)

\* SOLAR_SYSTEM_DATA: ids of the bodies, the first one first
SOLAR_SYSTEM_DATA == <<"earth", "jupiter">>

BodyIds == {SOLAR_SYSTEM_DATA[i] : i \in 1..Len(SOLAR_SYSTEM_DATA)}

\* the locations (City) of each body: the body's data array
BodyData(id) ==
    CASE id = "earth" -> {"tokyo"}
      [] OTHER        -> {}

Cities == UNION {BodyData(id) : id \in BodyIds}

\* selectedItem: City | null
NoCity == "null"

(* ---------------- inputs ---------------- *)

\* identifiers a caller may pass: the catalog's and one that matches no body
IdInputs == BodyIds \cup {"pluto"}
\* zoom values a caller or a renderer may pass
ZoomInputs == {42, 150}
\* window.innerWidth at a resize
WidthInputs == {SmallScreenWidth - 1, SmallScreenWidth}
ViewModes == {"ORBIT", "SYSTEM"}

(* ---------------- state ---------------- *)

VARIABLES
    activeBodyId,       \* useState<string>('earth')
    selectedItem,       \* useState<City | null>(null)
    viewMode,           \* useState<ViewMode>('ORBIT')
    zoomLevel,          \* useState<number>(30)
    isActivated,        \* useState<boolean>(false)
    isTransitioning,    \* useState<boolean>(false)
    isMobile,           \* useState<boolean>(false)
    mobileInfoVisible,  \* useState(false)
    mobileListVisible,  \* useState(false)
    timers,             \* number of pending setTimeout(..., 1200) callbacks
    fsRequests,         \* number of unresolved requestFullscreen() promises
    fullscreen,         \* document.fullscreenElement: "off", "on", or
                        \* "exiting" (set, exitFullscreen() not yet done)
    rendererZoom,       \* the zoom held by the mounted renderer (the Globe
                        \* in ORBIT mode, the SolarSystemMap in SYSTEM mode)
    mapEverMounted,     \* a SolarSystemMap has been rendered, so that its
                        \* onZoomAutoChange callback can be invoked
    sent,               \* the setZoom commands the last handler issued
    last                \* the operation that made the last step

coordVars == <<activeBodyId, selectedItem, viewMode, zoomLevel, isActivated,
               isTransitioning, isMobile, mobileInfoVisible, mobileListVisible>>
platformVars == <<timers, fsRequests, fullscreen>>
rendererVars == <<rendererZoom, mapEverMounted, sent>>
vars == <<coordVars, platformVars, rendererVars, last>>

\* the activation state of section 4.2, read off the two flags as the
\* render does: the overlay shows "transitioning" whenever isTransitioning
Activation ==
    IF isTransitioning THEN "transitioning"
    ELSE IF isActivated THEN "activated"
    ELSE "dormant"

\* const activeConfig = SOLAR_SYSTEM_DATA.find(...) || SOLAR_SYSTEM_DATA[0]
activeConfig ==
    IF activeBodyId \in BodyIds THEN activeBodyId ELSE SOLAR_SYSTEM_DATA[1]

\* last: op is the handler, arg its input (for a handler without input,
\* the activation state it was invoked in)
Did(op, arg) == last' = [op |-> op, arg |-> arg]

(* ---------------- renderers ---------------- *)

\* the zoom a renderer shows when it is mounted: neither <Globe> nor
\* <SolarSystemMap> is given zoomLevel as a prop, so it is the renderer's
\* own; taken to be the percentage the coordinator starts with
RendererInitialZoom == ZoomDefault

\* viewMode === 'ORBIT' ? globeRef : mapRef
ActiveRenderer == IF viewMode = "ORBIT" THEN "globe" ELSE "map"

\* the handler issues no command and the render keeps the mounted renderer
NoRendererEffect ==
    /\ sent' = <<>>
    /\ UNCHANGED <<rendererZoom, mapEverMounted>>

\* the render after a handler that may change viewMode:
\* {viewMode === 'ORBIT' ? <Globe .../> : <SolarSystemMap .../>} unmounts
\* one renderer and mounts the other
Remount ==
    /\ sent' = <<>>
    /\ rendererZoom' = IF viewMode' # viewMode THEN RendererInitialZoom
                       ELSE rendererZoom
    /\ mapEverMounted' = (mapEverMounted \/ viewMode' = "SYSTEM")

(* ---------------- device classifier ---------------- *)

\* checkDevice: setIsMobile(isSmallScreen || hasTouch)
classify(innerWidth, hasTouch) ==
    (innerWidth < SmallScreenWidth) \/ hasTouch

TypeOK ==
    /\ activeBodyId \in IdInputs
    /\ selectedItem \in Cities \cup {NoCity}
    /\ viewMode \in ViewModes
    /\ zoomLevel \in ZoomInputs \cup {ZoomDefault}
    /\ isActivated \in BOOLEAN
    /\ isTransitioning \in BOOLEAN
    /\ isMobile \in BOOLEAN
    /\ mobileInfoVisible \in BOOLEAN
    /\ mobileListVisible \in BOOLEAN
    /\ timers \in 0..MaxTimers
    /\ fsRequests \in 0..MaxFsRequests
    /\ fullscreen \in {"off", "on", "exiting"}
    /\ rendererZoom \in ZoomInputs \cup {ZoomDefault}
    /\ mapEverMounted \in BOOLEAN
    /\ Len(sent) \in {0, 1}

\* the state after the first render and the mount effect's checkDevice()
Init ==
    \E w \in WidthInputs, hasTouch \in BOOLEAN :
        /\ activeBodyId = "earth"
        /\ selectedItem = NoCity
        /\ viewMode = "ORBIT"
        /\ zoomLevel = ZoomDefault
        /\ isTransitioning = FALSE
        /\ isMobile = classify(w, hasTouch)
        /\ isActivated = ~classify(w, hasTouch)
        /\ mobileInfoVisible = FALSE
        /\ mobileListVisible = FALSE
        /\ timers = 0
        /\ fsRequests = 0
        /\ fullscreen = "off"
        /\ rendererZoom = RendererInitialZoom
        /\ mapEverMounted = FALSE
        /\ sent = <<>>
        /\ last = [op |-> "mount", arg |-> "dormant"]

\* checkDevice without its setIsActivated(true) on desktop
checkDevice_noAutoActivate(innerWidth, hasTouch) ==
    /\ isMobile' = classify(innerWidth, hasTouch)
    /\ UNCHANGED <<activeBodyId, selectedItem, viewMode, zoomLevel,
                   isActivated, isTransitioning, mobileInfoVisible,
                   mobileListVisible>>
    /\ UNCHANGED platformVars
    /\ NoRendererEffect
    /\ Did("checkDevice", Activation)

\* window 'resize' -> checkDevice
checkDevice(innerWidth, hasTouch) ==
    /\ isMobile' = classify(innerWidth, hasTouch)
    /\ isActivated' = IF ~classify(innerWidth, hasTouch) THEN TRUE
                      ELSE isActivated
    /\ UNCHANGED <<activeBodyId, selectedItem, viewMode, zoomLevel,
                   isTransitioning, mobileInfoVisible, mobileListVisible>>
    /\ UNCHANGED platformVars
    /\ NoRendererEffect
    /\ Did("checkDevice", Activation)

(* ---------------- activation lifecycle ---------------- *)

\* handleActivate: setIsTransitioning(true); setTimeout(..., 1200)
handleActivate ==
    /\ timers < MaxTimers
    /\ isTransitioning' = TRUE
    /\ timers' = timers + 1
    /\ UNCHANGED <<activeBodyId, selectedItem, viewMode, zoomLevel,
                   isActivated, isMobile, mobileInfoVisible,
                   mobileListVisible>>
    /\ UNCHANGED <<fsRequests, fullscreen>>
    /\ NoRendererEffect
    /\ Did("handleActivate", Activation)

\* the setTimeout callback without its setIsTransitioning(false)
transitionTimeout_keepsTransitioning(requested) ==
    /\ timers > 0
    /\ requested => fsRequests < MaxFsRequests
    /\ timers' = timers - 1
    /\ isActivated' = TRUE
    /\ fsRequests' = IF requested THEN fsRequests + 1 ELSE fsRequests
    /\ UNCHANGED <<activeBodyId, selectedItem, viewMode, zoomLevel,
                   isTransitioning, isMobile, mobileInfoVisible,
                   mobileListVisible>>
    /\ UNCHANGED fullscreen
    /\ NoRendererEffect
    /\ Did("transitionTimeout", Activation)

\* the setTimeout callback of handleActivate, up to its await:
\* setIsActivated(true); setIsTransitioning(false); and, when the platform
\* has requestFullscreen, the request is issued (requested = TRUE)
transitionTimeout(requested) ==
    /\ timers > 0
    /\ requested => fsRequests < MaxFsRequests
    /\ timers' = timers - 1
    /\ isActivated' = TRUE
    /\ isTransitioning' = FALSE
    /\ fsRequests' = IF requested THEN fsRequests + 1 ELSE fsRequests
    /\ UNCHANGED <<activeBodyId, selectedItem, viewMode, zoomLevel, isMobile,
                   mobileInfoVisible, mobileListVisible>>
    /\ UNCHANGED fullscreen
    /\ NoRendererEffect
    /\ Did("transitionTimeout", Activation)

\* the 'fullscreenchange' listener, run with the document's new
\* fullscreenElement (present or null):
\* if (!document.fullscreenElement && isActivated && isMobile)
\*     setIsActivated(false)
onFsChange(fullscreenElement) ==
    /\ isActivated' = IF ~fullscreenElement /\ isActivated /\ isMobile
                      THEN FALSE ELSE isActivated
    /\ UNCHANGED <<activeBodyId, selectedItem, viewMode, zoomLevel,
                   isTransitioning, isMobile, mobileInfoVisible,
                   mobileListVisible>>

\* await requestFullscreen() resolves: the document enters fullscreen and
\* 'fullscreenchange' fires
requestFullscreenResolved ==
    /\ fsRequests > 0
    /\ fsRequests' = fsRequests - 1
    /\ fullscreen' = "on"
    /\ onFsChange(TRUE)
    /\ UNCHANGED timers
    /\ NoRendererEffect
    /\ Did("requestFullscreenResolved", Activation)

\* await requestFullscreen() rejects: catch (err) { console.warn(...) }
requestFullscreenRejected ==
    /\ fsRequests > 0
    /\ fsRequests' = fsRequests - 1
    /\ UNCHANGED coordVars
    /\ UNCHANGED <<timers, fullscreen>>
    /\ NoRendererEffect
    /\ Did("requestFullscreenRejected", Activation)

\* the user leaves fullscreen with a control of the platform:
\* fullscreenElement becomes null and 'fullscreenchange' fires
platformExitFullscreen ==
    /\ fullscreen = "on"
    /\ fullscreen' = "off"
    /\ onFsChange(FALSE)
    /\ UNCHANGED <<timers, fsRequests>>
    /\ NoRendererEffect
    /\ Did("platformExitFullscreen", Activation)

\* the exitFullscreen() of handleDeactivate completes: fullscreenElement
\* becomes null and 'fullscreenchange' fires
exitFullscreenDone ==
    /\ fullscreen = "exiting"
    /\ fullscreen' = "off"
    /\ onFsChange(FALSE)
    /\ UNCHANGED <<timers, fsRequests>>
    /\ NoRendererEffect
    /\ Did("exitFullscreenDone", Activation)

\* handleDeactivate without its setIsTransitioning(false)
handleDeactivate_keepsTransitioning ==
    /\ fullscreen' = IF fullscreen # "off" THEN "exiting" ELSE "off"
    /\ isActivated' = FALSE
    /\ selectedItem' = NoCity
    /\ zoomLevel' = ZoomDefault
    /\ UNCHANGED <<activeBodyId, viewMode, isTransitioning, isMobile,
                   mobileInfoVisible, mobileListVisible>>
    /\ UNCHANGED <<timers, fsRequests>>
    /\ NoRendererEffect
    /\ Did("handleDeactivate", Activation)

\* handleDeactivate
handleDeactivate ==
    /\ fullscreen' = IF fullscreen # "off" THEN "exiting" ELSE "off"
    /\ isActivated' = FALSE
    /\ isTransitioning' = FALSE
    /\ selectedItem' = NoCity
    /\ zoomLevel' = ZoomDefault
    /\ UNCHANGED <<activeBodyId, viewMode, isMobile, mobileInfoVisible,
                   mobileListVisible>>
    /\ UNCHANGED <<timers, fsRequests>>
    /\ NoRendererEffect
    /\ Did("handleDeactivate", Activation)

(* ---------------- coordinator operations ---------------- *)

\* handleZoomChange without its else branch: globeRef.current?.setZoom(val)
\* only, which reaches no renderer in SYSTEM mode
handleZoomChange_globeOnly(val) ==
    /\ zoomLevel' = val
    /\ UNCHANGED <<activeBodyId, selectedItem, viewMode, isActivated,
                   isTransitioning, isMobile, mobileInfoVisible,
                   mobileListVisible>>
    /\ UNCHANGED platformVars
    /\ sent' = IF viewMode = "ORBIT" THEN <<[to |-> "globe", val |-> val]>>
               ELSE <<>>
    /\ rendererZoom' = IF viewMode = "ORBIT" THEN val ELSE rendererZoom
    /\ UNCHANGED mapEverMounted
    /\ Did("handleZoomChange", Activation)

\* handleZoomChange(val): setZoomLevel(val), then the command to the renderer
handleZoomChange(val) ==
    /\ zoomLevel' = val
    /\ UNCHANGED <<activeBodyId, selectedItem, viewMode, isActivated,
                   isTransitioning, isMobile, mobileInfoVisible,
                   mobileListVisible>>
    /\ UNCHANGED platformVars
    /\ sent' = <<[to |-> ActiveRenderer, val |-> val]>>
    /\ rendererZoom' = val
    /\ UNCHANGED mapEverMounted
    /\ Did("handleZoomChange", Activation)

\* onZoomAutoChange={setZoomLevel} of the SolarSystemMap: a map reports
\* the zoom it moved to by itself; a mounted map (SYSTEM mode) holds that
\* zoom, an unmounted one reports late
onZoomAutoChange(val) ==
    /\ mapEverMounted
    /\ zoomLevel' = val
    /\ UNCHANGED <<activeBodyId, selectedItem, viewMode, isActivated,
                   isTransitioning, isMobile, mobileInfoVisible,
                   mobileListVisible>>
    /\ UNCHANGED platformVars
    /\ sent' = <<>>
    /\ rendererZoom' = IF viewMode = "SYSTEM" THEN val ELSE rendererZoom
    /\ UNCHANGED mapEverMounted
    /\ Did("onZoomAutoChange", Activation)

\* handleBodySelection without its setSelectedItem(null)
handleBodySelection_keepsSelection(id) ==
    /\ activeBodyId' = id
    /\ mobileListVisible' = IF isMobile THEN FALSE ELSE mobileListVisible
    /\ UNCHANGED <<selectedItem, viewMode, zoomLevel, isActivated,
                   isTransitioning, isMobile, mobileInfoVisible>>
    /\ UNCHANGED platformVars
    /\ NoRendererEffect
    /\ Did("handleBodySelection", id)

\* handleBodySelection(id)
handleBodySelection(id) ==
    /\ activeBodyId' = id
    /\ selectedItem' = NoCity
    /\ mobileListVisible' = IF isMobile THEN FALSE ELSE mobileListVisible
    /\ UNCHANGED <<viewMode, zoomLevel, isActivated, isTransitioning,
                   isMobile, mobileInfoVisible>>
    /\ UNCHANGED platformVars
    /\ NoRendererEffect
    /\ Did("handleBodySelection", id)

\* handleMapSelection without the detailedBodies test
handleMapSelection_anyBody(id) ==
    /\ activeBodyId' = id
    /\ selectedItem' = NoCity
    /\ viewMode' = IF viewMode = "SYSTEM" THEN "ORBIT" ELSE viewMode
    /\ UNCHANGED <<zoomLevel, isActivated, isTransitioning, isMobile,
                   mobileInfoVisible, mobileListVisible>>
    /\ UNCHANGED platformVars
    /\ Remount
    /\ Did("handleMapSelection", id)

\* handleMapSelection(id)
handleMapSelection(id) ==
    /\ activeBodyId' = id
    /\ selectedItem' = NoCity
    /\ viewMode' = IF viewMode = "SYSTEM" /\ id \in detailedBodies
                   THEN "ORBIT" ELSE viewMode
    /\ UNCHANGED <<zoomLevel, isActivated, isTransitioning, isMobile,
                   mobileInfoVisible, mobileListVisible>>
    /\ UNCHANGED platformVars
    /\ Remount
    /\ Did("handleMapSelection", id)

\* handleCitySelect(city)
handleCitySelect(city) ==
    /\ selectedItem' = city
    /\ mobileInfoVisible' = IF isMobile THEN FALSE ELSE mobileInfoVisible
    /\ mobileListVisible' = IF isMobile THEN FALSE ELSE mobileListVisible
    /\ UNCHANGED <<activeBodyId, viewMode, zoomLevel, isActivated,
                   isTransitioning, isMobile>>
    /\ UNCHANGED platformVars
    /\ NoRendererEffect
    /\ Did("handleCitySelect", city)

\* a view-mode setter that also clears the selection
setViewMode_clearsSelection(mode) ==
    /\ viewMode' = mode
    /\ selectedItem' = NoCity
    /\ UNCHANGED <<activeBodyId, zoomLevel, isActivated, isTransitioning,
                   isMobile, mobileInfoVisible, mobileListVisible>>
    /\ UNCHANGED platformVars
    /\ Remount
    /\ Did("setViewMode", mode)

\* onViewModeChange={setViewMode}
setViewMode(mode) ==
    /\ viewMode' = mode
    /\ UNCHANGED <<activeBodyId, selectedItem, zoomLevel, isActivated,
                   isTransitioning, isMobile, mobileInfoVisible,
                   mobileListVisible>>
    /\ UNCHANGED platformVars
    /\ Remount
    /\ Did("setViewMode", mode)

\* onToggleMobileInfo without its setMobileListVisible(false)
onToggleMobileInfo_keepsList ==
    /\ mobileInfoVisible' = ~mobileInfoVisible
    /\ UNCHANGED <<activeBodyId, selectedItem, viewMode, zoomLevel,
                   isActivated, isTransitioning, isMobile, mobileListVisible>>
    /\ UNCHANGED platformVars
    /\ NoRendererEffect
    /\ Did("onToggleMobileInfo", Activation)

\* onToggleMobileInfo
onToggleMobileInfo ==
    /\ mobileInfoVisible' = ~mobileInfoVisible
    /\ mobileListVisible' = FALSE
    /\ UNCHANGED <<activeBodyId, selectedItem, viewMode, zoomLevel,
                   isActivated, isTransitioning, isMobile>>
    /\ UNCHANGED platformVars
    /\ NoRendererEffect
    /\ Did("onToggleMobileInfo", Activation)

\* onToggleMobileList
onToggleMobileList ==
    /\ mobileListVisible' = ~mobileListVisible
    /\ mobileInfoVisible' = FALSE
    /\ UNCHANGED <<activeBodyId, selectedItem, viewMode, zoomLevel,
                   isActivated, isTransitioning, isMobile>>
    /\ UNCHANGED platformVars
    /\ NoRendererEffect
    /\ Did("onToggleMobileList", Activation)

\* DetailPanel onClose={() => setSelectedItem(null)}
onClose ==
    /\ selectedItem' = NoCity
    /\ UNCHANGED <<activeBodyId, viewMode, zoomLevel, isActivated,
                   isTransitioning, isMobile, mobileInfoVisible,
                   mobileListVisible>>
    /\ UNCHANGED platformVars
    /\ NoRendererEffect
    /\ Did("onClose", Activation)

Next ==
    \/ \E w \in WidthInputs, hasTouch \in BOOLEAN : checkDevice(w, hasTouch)
    \/ handleActivate
    \/ \E requested \in BOOLEAN : transitionTimeout(requested)
    \/ requestFullscreenResolved
    \/ requestFullscreenRejected
    \/ platformExitFullscreen
    \/ exitFullscreenDone
    \/ handleDeactivate
    \/ \E val \in ZoomInputs : handleZoomChange(val)
    \/ \E val \in ZoomInputs : onZoomAutoChange(val)
    \/ \E id \in IdInputs : handleBodySelection(id)
    \/ \E id \in IdInputs : handleMapSelection(id)
    \/ \E city \in Cities : handleCitySelect(city)
    \/ \E mode \in ViewModes : setViewMode(mode)
    \/ onToggleMobileInfo
    \/ onToggleMobileList
    \/ onClose

Spec == Init /\ [][Next]_vars

\* the same handlers, each input-taking one on a single input of its type
\* (the activation lifecycle reads none of these inputs)
NextLive ==
    \/ \E w \in WidthInputs, hasTouch \in BOOLEAN : checkDevice(w, hasTouch)
    \/ handleActivate
    \/ \E requested \in BOOLEAN : transitionTimeout(requested)
    \/ requestFullscreenResolved
    \/ requestFullscreenRejected
    \/ platformExitFullscreen
    \/ exitFullscreenDone
    \/ handleDeactivate
    \/ handleZoomChange(42)
    \/ onZoomAutoChange(42)
    \/ handleBodySelection("jupiter")
    \/ handleMapSelection("earth")
    \/ handleCitySelect("tokyo")
    \/ \E mode \in ViewModes : setViewMode(mode)
    \/ onToggleMobileInfo
    \/ onToggleMobileList
    \/ onClose

\* a pending setTimeout callback is eventually run by the event loop
LiveSpec ==
    /\ Init
    /\ [][NextLive]_vars
    /\ WF_vars(\E requested \in BOOLEAN : transitionTimeout(requested))

(* ---------------- properties ---------------- *)

\* dormant: neither activated nor transitioning
Dormant == ~isActivated /\ ~isTransitioning

\* C1: when deactivate() is called while transitioning and the pending
\* timer then fires, the view is dormant afterwards.
C1_TimerAfterDeactivateStaysDormant ==
    [][(/\ last.op = "handleDeactivate"
        /\ last.arg = "transitioning"
        /\ last'.op = "transitionTimeout") => Dormant']_vars

\* C2: in every reachable state the selection is null or a location of the
\* body identified by activeBodyId.
C2_SelectionBelongsToActiveBody ==
    selectedItem = NoCity \/ selectedItem \in BodyData(activeBodyId)

\* C3: in every reachable state zoomLevel is in [0,100].
C3_ZoomInRange == zoomLevel \in 0..100

\* C4: the two mobile panel flags are never both true, and a toggle flips
\* its own panel and closes the other.
C4_PanelsExclusive ==
    /\ [](~(mobileInfoVisible /\ mobileListVisible))
    /\ [][/\ last'.op = "onToggleMobileInfo" =>
                (mobileInfoVisible' = ~mobileInfoVisible
                 /\ ~mobileListVisible')
          /\ last'.op = "onToggleMobileList" =>
                (mobileListVisible' = ~mobileListVisible
                 /\ ~mobileInfoVisible')]_vars

\* C4 witness: the list panel was opened by its toggle (which closed the
\* info panel)
C4_Witness ==
    /\ last.op = "onToggleMobileList"
    /\ mobileListVisible
    /\ ~mobileInfoVisible
    /\ isMobile

\* C5: selectBody(id) with an id that matches no body leaves the
\* interaction state unchanged.
C5_UnknownBodyRejected ==
    [][(last'.op = "handleBodySelection" /\ last'.arg \notin BodyIds)
         => UNCHANGED coordVars]_vars

\* C6: selectLocation(L) with L not a location of the active body leaves
\* the selection and the rest of the state unchanged.
C6_LocationMismatchRejected ==
    [][(last'.op = "handleCitySelect"
        /\ last'.arg \notin BodyData(activeBodyId))
         => UNCHANGED coordVars]_vars

\* C7: activate() while transitioning or activated changes no state and
\* schedules no timer.
C7_ActivateNoOpUnlessDormant ==
    [][(last'.op = "handleActivate" /\ ~Dormant)
         => UNCHANGED <<coordVars, timers>>]_vars

\* C8: a platform fullscreen exit on a touch device with the view activated
\* leaves the state deactivate() leaves (dormant, no selection, default
\* zoom); on desktop, or with the view not activated, it changes nothing.
C8_FullscreenExitDeactivates ==
    [][last'.op = "platformExitFullscreen" =>
         /\ (isMobile /\ Activation = "activated") =>
               (Dormant' /\ selectedItem' = NoCity
                /\ zoomLevel' = ZoomDefault)
         /\ (~isMobile \/ ~isActivated) => UNCHANGED coordVars]_vars

\* C9: selectFromMap(id) with a known id sets activeBodyId to id, clears the
\* selection, and switches to ORBIT exactly when the mode is SYSTEM and id
\* is a detailed body; otherwise the view mode stays.
C9_MapSelection ==
    [][(last'.op = "handleMapSelection" /\ last'.arg \in BodyIds) =>
         /\ activeBodyId' = last'.arg
         /\ selectedItem' = NoCity
         /\ viewMode' = IF viewMode = "SYSTEM" /\ last'.arg \in detailedBodies
                        THEN "ORBIT" ELSE viewMode]_vars

\* C9 witness: a body outside the allow-list was selected from the map and
\* the view is still in SYSTEM mode
C9_Witness ==
    /\ last.op = "handleMapSelection"
    /\ last.arg = "jupiter"
    /\ activeBodyId = "jupiter"
    /\ viewMode = "SYSTEM"

\* C10: deactivate() from any activation state leaves the view dormant with
\* no selection and the default zoom, and a second deactivate() right after
\* the first changes nothing.
C10_DeactivateResets ==
    /\ [][last'.op = "handleDeactivate" =>
            (Dormant' /\ selectedItem' = NoCity
             /\ zoomLevel' = ZoomDefault)]_vars
    /\ [][(last.op = "handleDeactivate" /\ last'.op = "handleDeactivate")
            => UNCHANGED <<coordVars, platformVars>>]_vars

\* C10 witness: deactivate() was called during the transition, with the
\* timer still pending
C10_Witness ==
    /\ last.op = "handleDeactivate"
    /\ last.arg = "transitioning"
    /\ timers > 0
    /\ Dormant
\* C11: a reclassification to desktop while dormant leaves the view
\* activated (no activate() call), and a reclassification from desktop to
\* touch with the view activated leaves it activated.
C11_ReclassificationActivation ==
    [][last'.op = "checkDevice" =>
         /\ (~isMobile' /\ Dormant) => Activation' = "activated"
         /\ (~isMobile /\ isMobile' /\ Activation = "activated")
               => Activation' = "activated"]_vars

\* C11 witness: checkDevice ran in the dormant state, classified the device
\* as desktop, and the view is activated with no timer ever pending
C11_Witness ==
    /\ last.op = "checkDevice"
    /\ last.arg = "dormant"
    /\ ~isMobile
    /\ Activation = "activated"
    /\ timers = 0

\* C13 (as claimed): after every step in which activeBodyId or viewMode
\* takes a new value, the selection is null.
C13_SelectionClearedOnAnyChange ==
    [][(activeBodyId' # activeBodyId \/ viewMode' # viewMode)
         => selectedItem' = NoCity]_vars

\* C13 (amended): after every step in which activeBodyId takes a new value,
\* or viewMode takes a new value by an operation other than setViewMode,
\* the selection is null.
C13_SelectionClearedOnBodyChange ==
    [][(\/ activeBodyId' # activeBodyId
        \/ (viewMode' # viewMode /\ last'.op # "setViewMode"))
         => selectedItem' = NoCity]_vars

\* C13 witness: a map selection of a detailed body made the active body
\* earth in ORBIT mode, with no selection
C13_Witness ==
    /\ last.op = "handleMapSelection"
    /\ last.arg = "earth"
    /\ activeBodyId = "earth"
    /\ mapEverMounted
    /\ viewMode = "ORBIT"
    /\ selectedItem = NoCity

\* C14: setViewMode(mode) sets viewMode to mode and leaves selection,
\* zoomLevel, activeBodyId, the activation flags, the device class and the
\* panel flags unchanged.
C14_SetViewModeFrame ==
    [][last'.op = "setViewMode" =>
         /\ viewMode' = last'.arg
         /\ UNCHANGED <<activeBodyId, selectedItem, zoomLevel, isActivated,
                        isTransitioning, isMobile, mobileInfoVisible,
                        mobileListVisible>>]_vars

\* C14 witness: the view was switched to SYSTEM while a location is selected
C14_Witness ==
    /\ last.op = "setViewMode"
    /\ last.arg = "SYSTEM"
    /\ viewMode = "SYSTEM"
    /\ selectedItem # NoCity

\* C16: a zoom-changed event of the map that arrives while the map is not
\* the renderer selected by viewMode leaves zoomLevel unchanged.
C16_InactiveRendererIgnored ==
    [][(last'.op = "onZoomAutoChange" /\ viewMode # "SYSTEM")
         => zoomLevel' = zoomLevel]_vars

\* C17: on a touch device selectBody and selectFromMap leave the list panel
\* closed and selectLocation leaves both panels closed; on desktop none of
\* the three changes a panel flag.
C17_SelectionClosesPanels ==
    [][/\ (last'.op \in {"handleBodySelection", "handleMapSelection"}
           /\ isMobile) => ~mobileListVisible'
       /\ (last'.op = "handleCitySelect" /\ isMobile)
             => (~mobileInfoVisible' /\ ~mobileListVisible')
       /\ (last'.op \in {"handleBodySelection", "handleMapSelection",
                         "handleCitySelect"} /\ ~isMobile)
             => UNCHANGED <<mobileInfoVisible, mobileListVisible>>]_vars

\* C19: in no reachable state is the document in the fullscreen the view
\* requested while the view is dormant.
C19_NoFullscreenWhileDormant == ~(fullscreen = "on" /\ Dormant)
\* C12: every setZoom(v) issues exactly one setZoom(v) command, to the
\* renderer selected by viewMode, and none to the other renderer.
C12_OneCommandToActiveRenderer ==
    [][last'.op = "handleZoomChange" =>
         /\ Len(sent') = 1
         /\ sent'[1].to = ActiveRenderer
         /\ sent'[1].val = zoomLevel']_vars

\* C12 witness: setZoom(42) in ORBIT mode sent one command, to the globe
C12_Witness ==
    /\ last.op = "handleZoomChange"
    /\ viewMode = "ORBIT"
    /\ zoomLevel = 42
    /\ sent = <<[to |-> "globe", val |-> 42]>>

\* C15: in every reachable state zoomLevel equals the zoom held by the
\* renderer selected by viewMode.
C15_ZoomMirrorsActiveRenderer == zoomLevel = rendererZoom
\* C18: activate() from dormant makes the view transitioning in the same
\* step, and a transitioning view eventually is activated and no longer
\* transitioning, unless a deactivate() intervenes; it never stays
\* transitioning forever.
C18_TransitionCompletes ==
    /\ [][(last'.op = "handleActivate" /\ Dormant) => isTransitioning']_vars
    /\ isTransitioning ~> (\/ isActivated /\ ~isTransitioning
                           \/ last.op = "handleDeactivate")
    /\ []<>(~isTransitioning)

\* C18 witness: the timer fired in the transitioning state and the view is
\* activated, not transitioning
C18_Witness ==
    /\ last.op = "transitionTimeout"
    /\ last.arg = "transitioning"
    /\ isActivated
    /\ ~isTransitioning
====
